---- MODULE Spec2Model ----
(***************************************************************************)
(* Model of the mpool MDC content version module (src/src/upgrade.c):      *)
(* the version table mdcvtab and the functions omfu_mdcver_cur,            *)
(* omfu_mdcver_comment, omfu_mdcver_to_str, omfu_mdcver_cmp and            *)
(* omfu_mdcver_cmp2.                                                       *)
(*                                                                         *)
(* A struct omf_mdcver is modelled by its array view mdcver[4], a tuple of *)
(* four u16 values.  C strings are sequences of one-character strings; the *)
(* terminating NUL is implicit.                                            *)
(***************************************************************************)
EXTENDS Integers, Sequences, FiniteSets

VARIABLES a, b, mdcvtab, buf, call

vars == <<a, b, mdcvtab, buf, call>>

\* ------------------------------------------------------------------ bounds
\* components of the operands of the comparison specification: 0..MaxComp
MaxComp == 1
\* buffer sizes handed to omfu_mdcver_to_str in Spec: 0..MaxSz
MaxSz == 3
\* number of sample component values used by the rendering specification
NSamples == 3
\* buffer sizes handed to omfu_mdcver_to_str in SpecStr: 0..MaxStrSz
MaxStrSz == 24

\* --------------------------------------------------------------- constants
MDCVER_MAJOR == 1
MDCVER_MINOR == 0
MDCVER_PATCH == 0
MDCVER_DEV == 0

\* number of values of a u16
U16Range == 65536

NUL == "\\0"
NULL == "NULL"

\* u16 values spanning every decimal length, then further ones
CompSample == <<0, 1, 10, 65535, 9, 100, 1000, 10000, 99, 999>>

Comps == 0..MaxComp
Versions == Comps \X Comps \X Comps \X Comps

StrComps == {CompSample[i] : i \in 1..NSamples}
StrVersions == StrComps \X StrComps \X StrComps \X StrComps

\* ------------------------------------------------------- struct omf_mdcver
\* field views of the union over mdcver[4]
mdcv_major(v) == v[1]
mdcv_minor(v) == v[2]
mdcv_patch(v) == v[3]
mdcv_dev(v) == v[4]

\* positional initializer { {major, minor, patch, dev} }
omf_mdcver(major, minor, patch, dev) == <<major, minor, patch, dev>>

\* ARRAY_SIZE(a->mdcver)
cnt == 4

\* conversion of an argument to a u16 parameter
U16(x) == x % U16Range

\* ------------------------------------------------------------ the registry
mdcver_1_0_0_0_types ==
    <<"OMF_MDR_OCREATE", "OMF_MDR_OUPDATE", "OMF_MDR_ODELETE",
      "OMF_MDR_OIDCKPT", "OMF_MDR_OERASE", "OMF_MDR_MCCONFIG",
      "OMF_MDR_MCSPARE", "OMF_MDR_VERSION", "OMF_MDR_MPCONFIG">>

\* a table whose added entry is out of order
mdcvtab_unordered ==
    << [mi_mdcver  |-> omf_mdcver(MDCVER_MAJOR, MDCVER_MINOR, MDCVER_PATCH, MDCVER_DEV),
        mi_types   |-> mdcver_1_0_0_0_types,
        mi_ntypes  |-> Len(mdcver_1_0_0_0_types),
        mi_comment |-> "Initial mpool MDCs content"],
       [mi_mdcver  |-> omf_mdcver(0, 0, 0, 1),
        mi_types   |-> mdcver_1_0_0_0_types,
        mi_ntypes  |-> Len(mdcver_1_0_0_0_types),
        mi_comment |-> "Out of order"] >>

mdcvtab_init ==
    << [mi_mdcver  |-> omf_mdcver(MDCVER_MAJOR, MDCVER_MINOR, MDCVER_PATCH, MDCVER_DEV),
        mi_types   |-> mdcver_1_0_0_0_types,
        mi_ntypes  |-> Len(mdcver_1_0_0_0_types),
        mi_comment |-> "Initial mpool MDCs content"] >>

\* ------------------------------------------------------------- operators
\* the operator strings of the closed set, and some outside it
OP_EQ == <<"=", "=">>
OP_LT == <<"<">>
OP_GT == <<">">>
OP_GE == <<">", "=">>
OP_LE == <<"<", "=">>
ValidOps == {OP_EQ, OP_LT, OP_GT, OP_GE, OP_LE}
InvalidOps == {<<"!", "=">>, <<"=">>, <<"=", "<">>, <<">", ">">>, <<"<", ">">>}
Ops == ValidOps \cup InvalidOps

\* op[i] of a C string, i counted from 0; op[Len] is the terminator
OpChar(op, i) == IF i < Len(op) THEN op[i + 1] ELSE NUL

\* -------------------------------------------------------- omfu_mdcver_cmp
\* the loop of omfu_mdcver_cmp from index i on: res and the number of
\* iterations executed
RECURSIVE cmp_loop_reverse(_, _, _)
cmp_loop_reverse(va, vb, i) ==
    IF i >= cnt THEN [res |-> 0, steps |-> cnt]
    ELSE IF va[cnt - i] # vb[cnt - i]
         THEN [res |-> IF va[cnt - i] > vb[cnt - i] THEN 1 ELSE -1, steps |-> i + 1]
         ELSE cmp_loop_reverse(va, vb, i + 1)

RECURSIVE cmp_loop_nosign(_, _, _)
cmp_loop_nosign(va, vb, i) ==
    IF i >= cnt THEN [res |-> 0, steps |-> cnt]
    ELSE IF va[i + 1] # vb[i + 1]
         THEN [res |-> 1, steps |-> i + 1]
         ELSE cmp_loop_nosign(va, vb, i + 1)

RECURSIVE cmp_loop(_, _, _)
cmp_loop(va, vb, i) ==
    IF i >= cnt THEN [res |-> 0, steps |-> cnt]
    ELSE IF va[i + 1] # vb[i + 1]
         THEN [res |-> IF va[i + 1] > vb[i + 1] THEN 1 ELSE -1, steps |-> i + 1]
         ELSE cmp_loop(va, vb, i + 1)

\* the test of the operator against res
cmp_test_ge(op, res) ==
    \/ (OpChar(op, 1) = "=") /\ (res = 0)
    \/ (OpChar(op, 0) = ">") /\ (res >= 0)
    \/ (OpChar(op, 0) = "<") /\ (res < 0)

cmp_test_op0(op, res) ==
    \/ (OpChar(op, 0) = "=") /\ (res = 0)
    \/ (OpChar(op, 0) = ">") /\ (res > 0)
    \/ (OpChar(op, 0) = "<") /\ (res < 0)

cmp_test(op, res) ==
    \/ (OpChar(op, 1) = "=") /\ (res = 0)
    \/ (OpChar(op, 0) = ">") /\ (res > 0)
    \/ (OpChar(op, 0) = "<") /\ (res < 0)

omfu_mdcver_cmp(va, op, vb) == cmp_test(op, cmp_loop(va, vb, 0).res)

\* ------------------------------------------------------- omfu_mdcver_cmp2
omfu_mdcver_cmp2_swapped(va, op, major, minor, patch, dev) ==
    omfu_mdcver_cmp(va, op, omf_mdcver(U16(major), U16(patch), U16(minor), U16(dev)))

omfu_mdcver_cmp2(va, op, major, minor, patch, dev) ==
    LET vb == omf_mdcver(U16(major), U16(minor), U16(patch), U16(dev))
    IN omfu_mdcver_cmp(va, op, vb)

\* -------------------------------------------------------- omfu_mdcver_cur
omfu_mdcver_cur(tab) == tab[Len(tab)].mi_mdcver

\* ---------------------------------------------------- omfu_mdcver_comment
\* the scan of omfu_mdcver_comment from index i on: the returned comment
\* and the number of entries looked at
RECURSIVE comment_scan_ge(_, _, _)
comment_scan_ge(tab, v, i) ==
    IF i >= Len(tab) THEN [ret |-> NULL, steps |-> i]
    ELSE IF omfu_mdcver_cmp(v, OP_GE, tab[i + 1].mi_mdcver)
         THEN [ret |-> tab[i + 1].mi_comment, steps |-> i + 1]
         ELSE comment_scan_ge(tab, v, i + 1)

RECURSIVE comment_scan(_, _, _)
comment_scan(tab, v, i) ==
    IF i >= Len(tab) THEN [ret |-> NULL, steps |-> i]
    ELSE IF omfu_mdcver_cmp(v, OP_EQ, tab[i + 1].mi_mdcver)
         THEN [ret |-> tab[i + 1].mi_comment, steps |-> i + 1]
         ELSE comment_scan(tab, v, i + 1)

omfu_mdcver_comment(tab, v) == comment_scan(tab, v, 0).ret

\* ----------------------------------------------------- omfu_mdcver_to_str
DigitChar == <<"0", "1", "2", "3", "4", "5", "6", "7", "8", "9">>

\* the conversion %u
RECURSIVE fmt_u(_)
fmt_u(n) ==
    IF n < 10 THEN <<DigitChar[n + 1]>>
    ELSE fmt_u(n \div 10) \o <<DigitChar[(n % 10) + 1]>>

\* a format that lost a period
fmt_mdcver_nodot(v) ==
    fmt_u(mdcv_major(v)) \o <<".">> \o fmt_u(mdcv_minor(v)) \o
    fmt_u(mdcv_patch(v)) \o <<".">> \o fmt_u(mdcv_dev(v))

\* the text of "%u.%u.%u.%u" for the four fields
fmt_mdcver(v) ==
    fmt_u(mdcv_major(v)) \o <<".">> \o fmt_u(mdcv_minor(v)) \o <<".">> \o
    fmt_u(mdcv_patch(v)) \o <<".">> \o fmt_u(mdcv_dev(v))

\* snprintf(buf, sz, ...): the string left in a buffer that held old
snprintf(old, sz, text) ==
    IF sz = 0 THEN old
    ELSE IF Len(text) <= sz - 1 THEN text
    ELSE SubSeq(text, 1, sz - 1)

omfu_mdcver_to_str(v, old, sz) == snprintf(old, sz, fmt_mdcver(v))

\* ------------------------------------------------------------ the machine
\* the content of a caller's buffer before any call
StaleBuf == <<"?">>

NoCall == [name |-> "none", op |-> <<>>, sz |-> 0, ret |-> FALSE, steps |-> 0]

Init ==
    /\ a \in Versions
    /\ b \in Versions
    /\ mdcvtab = mdcvtab_init
    /\ buf = StaleBuf
    /\ call = NoCall

InitStr ==
    /\ a \in StrVersions
    /\ b = omfu_mdcver_cur(mdcvtab_init)
    /\ mdcvtab = mdcvtab_init
    /\ buf = StaleBuf
    /\ call = NoCall

\* omfu_mdcver_cur()
Cur ==
    /\ call' = [name |-> "cur", op |-> <<>>, sz |-> 0,
                ret |-> omfu_mdcver_cur(mdcvtab), steps |-> 0]
    /\ UNCHANGED <<a, b, mdcvtab, buf>>

\* omfu_mdcver_comment(&a)
Comment ==
    /\ call' = [name |-> "comment", op |-> <<>>, sz |-> 0,
                ret |-> omfu_mdcver_comment(mdcvtab, a),
                steps |-> comment_scan(mdcvtab, a, 0).steps]
    /\ UNCHANGED <<a, b, mdcvtab, buf>>

\* omfu_mdcver_cmp(&a, op, &b)
Cmp ==
    \E op \in Ops :
        /\ call' = [name |-> "cmp", op |-> op, sz |-> 0,
                    ret |-> omfu_mdcver_cmp(a, op, b),
                    steps |-> cmp_loop(a, b, 0).steps]
        /\ UNCHANGED <<a, b, mdcvtab, buf>>

\* a comparison that builds its operand in the caller's struct
Cmp2InPlace ==
    \E op \in Ops :
        /\ call' = [name |-> "cmp2", op |-> op, sz |-> 0,
                    ret |-> omfu_mdcver_cmp2(a, op, mdcv_major(b), mdcv_minor(b),
                                            mdcv_patch(b), mdcv_dev(b)),
                    steps |-> cmp_loop(a, b, 0).steps]
        /\ a' = b
        /\ UNCHANGED <<b, mdcvtab, buf>>

\* omfu_mdcver_cmp2(&a, op, b.mdcv_major, b.mdcv_minor, b.mdcv_patch, b.mdcv_dev)
Cmp2 ==
    \E op \in Ops :
        /\ call' = [name |-> "cmp2", op |-> op, sz |-> 0,
                    ret |-> omfu_mdcver_cmp2(a, op, mdcv_major(b), mdcv_minor(b),
                                            mdcv_patch(b), mdcv_dev(b)),
                    steps |-> cmp_loop(a, b, 0).steps]
        /\ UNCHANGED <<a, b, mdcvtab, buf>>

\* omfu_mdcver_to_str(&a, buf, sz) for a size up to maxsz
ToStr(maxsz) ==
    \E sz \in 0..maxsz :
        /\ buf' = omfu_mdcver_to_str(a, buf, sz)
        /\ call' = [name |-> "to_str", op |-> <<>>, sz |-> sz,
                    ret |-> "buf", steps |-> 0]
        /\ UNCHANGED <<a, b, mdcvtab>>

ToStrShort == ToStr(MaxSz)

ToStrLong == ToStr(MaxStrSz)

Next == Cur \/ Comment \/ Cmp \/ Cmp2 \/ ToStrShort

NextStr == ToStrLong

Spec == Init /\ [][Next]_vars

SpecStr == InitStr /\ [][NextStr]_vars

\* ------------------------------------------------- vocabulary of the claims
\* the tuple (major, minor, patch, dev) of a version
Key(v) == <<mdcv_major(v), mdcv_minor(v), mdcv_patch(v), mdcv_dev(v)>>

\* x is before y in the lexicographic order: the first differing component
\* of x is the smaller one
LexLess(x, y) ==
    \E i \in 1..4 : /\ x[i] < y[i]
                    /\ \A j \in 1..(i - 1) : x[j] = y[j]

\* the truth value of a relational operator of the closed set
Rel(op, x, y) ==
    CASE op = OP_EQ -> x = y
      [] op = OP_LT -> LexLess(x, y)
      [] op = OP_GT -> LexLess(y, x)
      [] op = OP_GE -> (x = y) \/ LexLess(y, x)
      [] op = OP_LE -> (x = y) \/ LexLess(x, y)

\* the result of comparing a with b under op: the one the last call
\* returned when it was that comparison
Result(op) ==
    IF call.name = "cmp" /\ call.op = op THEN call.ret
    ELSE omfu_mdcver_cmp(a, op, b)

\* reading a text back: its fields between periods, and their values
Digits == {DigitChar[i] : i \in 1..10}

DigitVal(c) == CHOOSE d \in 0..9 : DigitChar[d + 1] = c

HasDot(s) == \E k \in 1..Len(s) : s[k] = "."

FirstDot(s) ==
    CHOOSE k \in 1..Len(s) : s[k] = "." /\ \A j \in 1..(k - 1) : s[j] # "."

RECURSIVE Fields(_)
Fields(s) ==
    IF ~HasDot(s) THEN <<s>>
    ELSE <<SubSeq(s, 1, FirstDot(s) - 1)>> \o Fields(SubSeq(s, FirstDot(s) + 1, Len(s)))

RECURSIVE DecVal(_)
DecVal(f) ==
    IF Len(f) = 0 THEN 0
    ELSE DecVal(SubSeq(f, 1, Len(f) - 1)) * 10 + DigitVal(f[Len(f)])

\* a decimal number without leading zeros
CanonicalNumber(f) ==
    /\ Len(f) > 0
    /\ \A i \in 1..Len(f) : f[i] \in Digits
    /\ Len(f) > 1 => f[1] # "0"

Invalid == <<>>

ParseVer(s) ==
    LET fs == Fields(s)
    IN IF Len(fs) = 4 /\ \A i \in 1..4 : CanonicalNumber(fs[i])
       THEN <<DecVal(fs[1]), DecVal(fs[2]), DecVal(fs[3]), DecVal(fs[4])>>
       ELSE Invalid

V1000 == <<1, 0, 0, 0>>

\* ------------------------------------------------------------------ claims

\* C1: for the five operators of the closed set omfu_mdcver_cmp(a, op, b)
\* returns the truth value of op on the lexicographic order of the tuples
\* (major, minor, patch, dev): the first differing component decides, equal
\* tuples compare equal; 1.0.0.0 > 0.9.9.9 and 1.0.0.0 < 1.0.0.1.
C1_CmpIsLexOrder ==
    /\ (call.name = "cmp" /\ call.op \in ValidOps)
          => (call.ret = Rel(call.op, Key(a), Key(b)))
    /\ (call.name = "none")
          => /\ omfu_mdcver_cmp(V1000, OP_GT, <<0, 9, 9, 9>>)
             /\ omfu_mdcver_cmp(V1000, OP_LT, <<1, 0, 0, 1>>)

C1_Witness ==
    /\ call.name = "cmp" /\ call.op = OP_LT /\ call.ret = TRUE
    /\ a = V1000 /\ b = <<1, 0, 0, 1>>

\* C2: an operator string outside the closed set is rejected by
\* omfu_mdcver_cmp and omfu_mdcver_cmp2 for every pair of versions: the
\* call never returns true.
C2_InvalidOpRejected ==
    (call.name \in {"cmp", "cmp2"} /\ call.op \in InvalidOps)
        => (call.ret = FALSE)

\* C3: totality, exactly one of the comparisons of a with b under "==",
\* "<" and ">" is true.
C3_Totality ==
    (call.name = "cmp" /\ call.op \in {OP_EQ, OP_LT, OP_GT})
        => Cardinality({op \in {OP_EQ, OP_LT, OP_GT} : Result(op)}) = 1

C3_Witness ==
    /\ call.name = "cmp" /\ call.op = OP_EQ /\ call.ret = TRUE
    /\ a = b

\* C4: consistency, ">=" is true exactly when ">" or "==" is, and "<="
\* exactly when "<" or "==" is.
C4_Consistency ==
    /\ (call.name = "cmp" /\ call.op = OP_GE)
          => (call.ret = (Result(OP_GT) \/ Result(OP_EQ)))
    /\ (call.name = "cmp" /\ call.op = OP_LE)
          => (call.ret = (Result(OP_LT) \/ Result(OP_EQ)))

C4_Witness ==
    /\ call.name = "cmp" /\ call.op = OP_GE /\ call.ret = TRUE
    /\ a = b

\* C5: antisymmetry, comparing a with b under ">" gives what comparing b
\* with a under "<" gives, and the same with the operators exchanged.
C5_Antisymmetry ==
    /\ (call.name = "cmp" /\ call.op = OP_GT)
          => (call.ret = omfu_mdcver_cmp(b, OP_LT, a))
    /\ (call.name = "cmp" /\ call.op = OP_LT)
          => (call.ret = omfu_mdcver_cmp(b, OP_GT, a))

C5_Witness ==
    /\ call.name = "cmp" /\ call.op = OP_GT /\ call.ret = TRUE
    /\ a # b

\* C6: omfu_mdcver_cur returns the version of the last entry of the
\* non-empty table, 1.0.0.0, which is ">=" the version of every entry, and
\* the versions of the table are strictly increasing in definition order.
C6_CurIsLastAndHighest ==
    (call.name = "cur")
        => /\ Len(mdcvtab) >= 1
           /\ call.ret = mdcvtab[Len(mdcvtab)].mi_mdcver
           /\ Key(call.ret) = V1000
           /\ \A i \in 1..Len(mdcvtab) :
                  omfu_mdcver_cmp(call.ret, OP_GE, mdcvtab[i].mi_mdcver)
           /\ \A i \in 1..Len(mdcvtab) : \A j \in (i + 1)..Len(mdcvtab) :
                  omfu_mdcver_cmp(mdcvtab[i].mi_mdcver, OP_LT, mdcvtab[j].mi_mdcver)

C6_Witness ==
    /\ call.name = "cur" /\ call.ret = V1000

\* C7: omfu_mdcver_comment(v) returns the comment of an entry exactly when
\* v equals the version of that entry in all four components, and NULL for
\* every other v; for the current version it returns "Initial mpool MDCs
\* content".
C7_CommentExactMatch ==
    (call.name = "comment")
        => LET match == {i \in 1..Len(mdcvtab) : Key(mdcvtab[i].mi_mdcver) = Key(a)}
           IN /\ (match = {}) => (call.ret = NULL)
              /\ (match # {}) => (\E i \in match : call.ret = mdcvtab[i].mi_comment)
              /\ (a = omfu_mdcver_cur(mdcvtab))
                    => (call.ret = "Initial mpool MDCs content")
              /\ omfu_mdcver_comment(mdcvtab, <<2, 0, 0, 0>>) = NULL
              /\ omfu_mdcver_comment(mdcvtab, <<0, 0, 0, 0>>) = NULL

C7_Witness ==
    /\ call.name = "comment" /\ call.ret = NULL
    /\ a = <<1, 0, 0, 1>>

\* C8 as stated: whatever sz is, the text omfu_mdcver_to_str leaves in buf
\* is the canonical rendering, which reads back as the version, and no
\* other version gives the same text for that sz.
C8_ToStrAnySize ==
    (call.name = "to_str")
        => /\ ParseVer(buf) = Key(a)
           /\ \A v \in StrVersions :
                  (v # a) => (omfu_mdcver_to_str(v, StaleBuf, call.sz) # buf)

\* C8 amended: when sz exceeds the length of the rendering, the text left
\* in buf is the canonical "major.minor.patch.dev" (decimal, no leading
\* zeros, three periods), it reads back as the version, 1.0.0.0 gives
\* "1.0.0.0", and no other version whose rendering fits sz gives that text.
C8_ToStrWhenFits ==
    (call.name = "to_str" /\ call.sz > Len(fmt_mdcver(a)))
        => /\ ParseVer(buf) = Key(a)
           /\ (Key(a) = V1000) => (buf = <<"1", ".", "0", ".", "0", ".", "0">>)
           /\ \A v \in StrVersions :
                  (v # a /\ call.sz > Len(fmt_mdcver(v)))
                      => (omfu_mdcver_to_str(v, StaleBuf, call.sz) # buf)

C8_Witness ==
    /\ call.name = "to_str" /\ call.sz = 9
    /\ a = <<1, 10, 0, 1>>
    /\ buf = <<"1", ".", "1", "0", ".", "0", ".", "1">>

\* C9: omfu_mdcver_cmp2(a, op, major, minor, patch, dev) returns what
\* omfu_mdcver_cmp(a, op, b) returns for the version b with these four
\* components, for every operator string.
C9_Cmp2IsCmp ==
    (call.name = "cmp2") => (call.ret = omfu_mdcver_cmp(a, call.op, b))

C9_Witness ==
    /\ call.name = "cmp2" /\ call.op = OP_LT /\ call.ret = TRUE
    /\ a = <<0, 1, 0, 0>> /\ b = <<0, 1, 1, 0>>

\* C10: no call changes the table or the operands, only omfu_mdcver_to_str
\* changes the buffer, the comparison loop runs at most 4 steps and the
\* lookup at most table-size steps.
C10_Frame ==
    /\ [][ /\ a' = a /\ b' = b /\ mdcvtab' = mdcvtab
           /\ (call'.name # "to_str") => (buf' = buf) ]_vars
    /\ [](/\ mdcvtab = mdcvtab_init
          /\ call.name \in {"cmp", "cmp2"} => call.steps \in 1..4
          /\ call.name = "comment" => call.steps \in 1..Len(mdcvtab))

C10_Witness ==
    /\ call.name = "cmp2" /\ call.steps = 4
    /\ buf = <<"1", ".">>
    /\ a = <<1, 1, 1, 0>> /\ b = <<1, 1, 1, 1>>
====
